---- MODULE Spec2Model ----
(***************************************************************************)
(* Model of the wordlist generator of password_analyzer.py:                *)
(* permutations_case, leet_variants, expand_years and generate_from_parts. *)
(*                                                                         *)
(* A Python str is a sequence of one-character strings, so <<"S","a","m">> *)
(* is "Sam".  A Python list is a sequence, a Python set is a set.          *)
(***************************************************************************)
EXTENDS Integers, Sequences, FiniteSets, TLC

(***************************************************************************)
(* Characters: the ASCII characters the configuration tables and the       *)
(* modelled inputs use, with their code points, and str.upper/str.lower.   *)
(***************************************************************************)
LowerLetters ==
  <<"a","b","c","d","e","f","g","h","i","j","k","l","m",
    "n","o","p","q","r","s","t","u","v","w","x","y","z">>

UpperLetters ==
  <<"A","B","C","D","E","F","G","H","I","J","K","L","M",
    "N","O","P","Q","R","S","T","U","V","W","X","Y","Z">>

Digits == <<"0","1","2","3","4","5","6","7","8","9">>

Range(s) == {s[i] : i \in DOMAIN s}

Whitespace == {" "}

Punctuation == {"!", "#", "$", "-", "@", "+"}

Chars == Range(LowerLetters) \cup Range(UpperLetters) \cup Range(Digits)
           \cup Whitespace \cup Punctuation

IndexOf(s, c) == CHOOSE i \in DOMAIN s : s[i] = c

\* ord(c), the code point that str comparison uses
Ord ==
  [c \in Chars |->
     IF c \in Range(LowerLetters) THEN 96 + IndexOf(LowerLetters, c)
     ELSE IF c \in Range(UpperLetters) THEN 64 + IndexOf(UpperLetters, c)
     ELSE IF c \in Range(Digits) THEN 47 + IndexOf(Digits, c)
     ELSE CASE c = " " -> 32
            [] c = "!" -> 33
            [] c = "#" -> 35
            [] c = "$" -> 36
            [] c = "+" -> 43
            [] c = "-" -> 45
            [] c = "@" -> 64]

UpperChar ==
  [c \in Chars |->
     IF c \in Range(LowerLetters) THEN UpperLetters[IndexOf(LowerLetters, c)]
     ELSE c]

LowerChar ==
  [c \in Chars |->
     IF c \in Range(UpperLetters) THEN LowerLetters[IndexOf(UpperLetters, c)]
     ELSE c]

\* str.upper(), str.lower(), str.capitalize(), s[::-1], s[1:]
upper(w) == [i \in 1..Len(w) |-> UpperChar[w[i]]]

lower(w) == [i \in 1..Len(w) |-> LowerChar[w[i]]]

capitalize(w) ==
  [i \in 1..Len(w) |-> IF i = 1 THEN UpperChar[w[i]] ELSE LowerChar[w[i]]]

reversed(w) == [i \in 1..Len(w) |-> w[Len(w) + 1 - i]]

Rest(w) == SubSeq(w, 2, Len(w))

Min(a, b) == IF a <= b THEN a ELSE b

Max(a, b) == IF a <= b THEN b ELSE a

(***************************************************************************)
(* Python's order on str: lexicographic by code point, a proper prefix     *)
(* before the longer string.                                               *)
(***************************************************************************)
RECURSIVE StrLessFrom(_, _, _)
StrLessFrom(s, t, i) ==
  IF i > Len(s) THEN i <= Len(t)
  ELSE IF i > Len(t) THEN FALSE
  ELSE IF s[i] = t[i] THEN StrLessFrom(s, t, i + 1)
  ELSE Ord[s[i]] < Ord[t[i]]

StrLess(s, t) == StrLessFrom(s, t, 1)

(***************************************************************************)
(* Configuration (password_analyzer.py, lines 38-51).                      *)
(***************************************************************************)
COMMON_SUFFIXES ==
  << <<>>, <<"1">>, <<"1","2">>, <<"1","2","3">>, <<"1","2","3","4">>,
     <<"1","2","3","4","5">>, <<"!">>, <<"@">>, <<"#">>, <<"$">>,
     <<"2","0","2","2">>, <<"2","0","2","3">>, <<"2","0","2","4">>,
     <<"2","0","2","5">> >>

COMMON_PREFIXES == << <<>>, <<"!">>, <<"@">>, <<"#">> >>

LeetKeys == {"a","A","e","E","i","I","o","O","s","S","t","T","l","L"}

LEET_MAP ==
  [c \in LeetKeys |->
     CASE c \in {"a","A"} -> <<"4","@">>
       [] c \in {"e","E"} -> <<"3">>
       [] c \in {"i","I"} -> <<"1","!">>
       [] c \in {"o","O"} -> <<"0">>
       [] c \in {"s","S"} -> <<"5","$">>
       [] c \in {"t","T"} -> <<"7">>
       [] c \in {"l","L"} -> <<"1">>]

MAX_LEET_VARIANTS_PER_WORD == 40

MAX_COMBINED_WORDS == 20000

MAX_COMBO_PARTS == 3

(***************************************************************************)
(* permutations_case(word): the set s built at lines 55-61.  The returned  *)
(* list is sorted(s).                                                      *)
(***************************************************************************)
\* the set without the all-upper-case form: s.add(word.upper()) left out
CaseSetNoUpper(word) == {word, lower(word), capitalize(word)}

CaseSet(word) ==
  {word, lower(word), upper(word), capitalize(word)}
    \cup (IF Len(word) > 1
            THEN {<<UpperChar[word[1]]>> \o lower(Rest(word))}
            ELSE {})

(***************************************************************************)
(* sorted(S) for a set S of str: the list of its elements in ascending     *)
(* order.  The list is built most significant character first: the string  *)
(* that ends at position k - 1 comes first, then the strings grouped by    *)
(* their k-th character in ascending code point order.                     *)
(***************************************************************************)
SortedChars(H) ==
  [i \in 1..Cardinality(H) |->
     CHOOSE c \in H : Cardinality({d \in H : Ord[d] < Ord[c]}) = i - 1]

RECURSIVE SortedFrom(_, _)
RECURSIVE SortedGroups(_, _, _, _)
SortedGroups(S, k, heads, j) ==
  IF j > Len(heads) THEN <<>>
  ELSE SortedFrom({s \in S : s[k] = heads[j]}, k + 1)
         \o SortedGroups(S, k, heads, j + 1)

SortedFrom(S, k) ==
  IF S = {} THEN <<>>
  ELSE LET ended == {s \in S : Len(s) < k}
           longer == S \ ended
       IN  (IF ended = {} THEN <<>> ELSE <<CHOOSE s \in ended : TRUE>>)
             \o SortedGroups(longer, k, SortedChars({s[k] : s \in longer}), 1)

\* sorted(words, reverse=True) in place of sorted(words)
SortedDescending(S) == reversed(SortedFrom(S, 1))

Sorted(S) == SortedFrom(S, 1)

permutations_case(word) == Sorted(CaseSet(word))

(***************************************************************************)
(* leet_variants(word, max_variants), lines 64-92.                         *)
(***************************************************************************)
\* line 70: the positions whose character is a key of LEET_MAP
LeetIndices(word) == {i \in 1..Len(word) : word[i] \in DOMAIN LEET_MAP}

\* subs[-1], the last listed substitute, in place of subs[0]
LeetReplaceLast(word, combo) ==
  [i \in 1..Len(word) |->
     IF i \in combo /\ word[i] \in DOMAIN LEET_MAP /\ Len(LEET_MAP[word[i]]) > 0
       THEN LEET_MAP[word[i]][Len(LEET_MAP[word[i]])]
       ELSE word[i]]

\* lines 75-81: a copy of chars with the first substitute at each index of combo
LeetReplace(word, combo) ==
  [i \in 1..Len(word) |->
     IF i \in combo /\ word[i] \in DOMAIN LEET_MAP /\ Len(LEET_MAP[word[i]]) > 0
       THEN LEET_MAP[word[i]][1]
       ELSE word[i]]

\* line 74: itertools.combinations(indices, r)
Combinations(indices, r) == {c \in SUBSET indices : Cardinality(c) = r}

\* lines 71-90: the set variants before it is cut
LeetSet(word) ==
  LET indices == LeetIndices(word)
      sizes == 1..(Min(3, Cardinality(indices) + 1) - 1)
  IN  {word}
        \cup {LeetReplace(word, combo) :
                combo \in UNION {Combinations(indices, r) : r \in sizes}}
        \cup (IF indices # {} THEN {LeetReplace(word, indices)} ELSE {})

\* line 91: list(variants)[:max_variants].  The iteration order of a set of
\* str is that of the strings' hashes, which the interpreter salts per
\* process: every selection of max_variants elements is a possible result.
\* The result is kept as the set of the returned list's elements.
LeetOutcomes(word, max_variants) ==
  LET variants == LeetSet(word)
  IN  IF Cardinality(variants) <= max_variants THEN {variants}
      ELSE IF max_variants >= 0
        THEN {out \in SUBSET variants : Cardinality(out) = max_variants}
        ELSE {out \in SUBSET variants :
                Cardinality(out) = Cardinality(variants) + max_variants}

(***************************************************************************)
(* int(token) and str(y).  int() skips surrounding whitespace, takes an    *)
(* optional sign and then needs at least one character, all of them        *)
(* digits; anything else raises ValueError.                                *)
(***************************************************************************)
RECURSIVE strip(_)
strip(w) ==
  IF w = <<>> THEN w
  ELSE IF w[1] \in Whitespace THEN strip(Rest(w))
  ELSE IF w[Len(w)] \in Whitespace THEN strip(SubSeq(w, 1, Len(w) - 1))
  ELSE w

RECURSIVE DigitsValue(_, _)
DigitsValue(w, acc) ==
  IF w = <<>> THEN acc
  ELSE DigitsValue(Rest(w), 10 * acc + (IndexOf(Digits, w[1]) - 1))

IsInt(token) ==
  LET t == strip(token)
      body == IF t # <<>> /\ t[1] \in {"+", "-"} THEN Rest(t) ELSE t
  IN  body # <<>> /\ \A i \in 1..Len(body) : body[i] \in Range(Digits)

int(token) ==
  LET t == strip(token)
      neg == t # <<>> /\ t[1] = "-"
      body == IF t # <<>> /\ t[1] \in {"+", "-"} THEN Rest(t) ELSE t
  IN  IF neg THEN 0 - DigitsValue(body, 0) ELSE DigitsValue(body, 0)

RECURSIVE NatToStr(_)
NatToStr(n) ==
  IF n < 10 THEN <<Digits[n + 1]>>
  ELSE NatToStr(n \div 10) \o <<Digits[(n % 10) + 1]>>

str(y) == IF y < 0 THEN <<"-">> \o NatToStr(0 - y) ELSE NatToStr(y)

(***************************************************************************)
(* expand_years(years_arg), lines 94-105.  The result is a record: raised  *)
(* tells that int() raised ValueError, which expand_years does not catch,  *)
(* and value is the returned list otherwise.                               *)
(***************************************************************************)
Returned(list) == [raised |-> FALSE, value |-> list]

ValueError == [raised |-> TRUE, value |-> <<>>]

\* list(range(lo, hi + 1))
RangeList(lo, hi) == [i \in 1..(IF hi >= lo THEN hi - lo + 1 ELSE 0) |-> lo + i - 1]

\* two tokens taken as a range only when they differ by more than 1, and
\* as the two discrete years otherwise
expand_years_discrete(years_arg) ==
  IF Len(years_arg) = 0 THEN Returned(<<>>)
  ELSE IF \E i \in 1..Len(years_arg) : ~IsInt(years_arg[i]) THEN ValueError
  ELSE IF Len(years_arg) = 2
            /\ int(years_arg[1]) - int(years_arg[2]) \notin -1..1
    THEN Returned(RangeList(Min(int(years_arg[1]), int(years_arg[2])),
                            Max(int(years_arg[1]), int(years_arg[2]))))
  ELSE Returned([i \in 1..Len(years_arg) |-> int(years_arg[i])])

\* the two-token case without the else branch that swaps the bounds
expand_years_unswapped(years_arg) ==
  IF Len(years_arg) = 0 THEN Returned(<<>>)
  ELSE IF \E i \in 1..Len(years_arg) : ~IsInt(years_arg[i]) THEN ValueError
  ELSE IF Len(years_arg) = 2
    THEN Returned(RangeList(int(years_arg[1]), int(years_arg[2])))
  ELSE Returned([i \in 1..Len(years_arg) |-> int(years_arg[i])])

expand_years(years_arg) ==
  IF Len(years_arg) = 0 THEN Returned(<<>>)
  ELSE IF Len(years_arg) = 1
    THEN IF IsInt(years_arg[1]) THEN Returned(<<int(years_arg[1])>>)
         ELSE ValueError
  ELSE IF Len(years_arg) = 2
    THEN IF IsInt(years_arg[1]) /\ IsInt(years_arg[2])
           THEN LET a == int(years_arg[1])
                    b == int(years_arg[2])
                IN  IF a <= b THEN Returned(RangeList(a, b))
                    ELSE Returned(RangeList(b, a))
           ELSE ValueError
  ELSE IF \A i \in 1..Len(years_arg) : IsInt(years_arg[i])
    THEN Returned([i \in 1..Len(years_arg) |-> int(years_arg[i])])
    ELSE ValueError

(***************************************************************************)
(* generate_from_parts(parts, years, max_words, add_reversed, add_repeats),*)
(* lines 107-166.                                                          *)
(***************************************************************************)
\* "p and p.strip()": the token is not empty and not all whitespace
NonBlank(p) == p # <<>> /\ strip(p) # <<>>

\* the token list as it would be without the filter of line 110
KeptAll(parts) == parts

\* line 110
KeptParts(parts) == SelectSeq(parts, NonBlank)

\* " ".join(combo) in place of "".join(combo)
RECURSIVE JoinWithSpace(_)
JoinWithSpace(combo) ==
  IF combo = <<>> THEN <<>>
  ELSE IF Len(combo) = 1 THEN combo[1]
  ELSE combo[1] \o <<" ">> \o JoinWithSpace(Rest(combo))

RECURSIVE Join(_)
Join(combo) == IF combo = <<>> THEN <<>> ELSE combo[1] \o Join(Rest(combo))

\* line 134: itertools.permutations(parts, r) draws r distinct positions
PartPermutations(parts, r) ==
  {[i \in 1..r |-> parts[pos[i]]] :
     pos \in {q \in [1..r -> 1..Len(parts)] :
                \A i, j \in 1..r : i # j => q[i] # q[j]}}

\* lines 133-135: every base the combination loop joins
ComboBases(parts, r) == {Join(combo) : combo \in PartPermutations(parts, r)}

\* range(1, min(MAX_COMBO_PARTS, len(parts))) in place of line 133: the
\* largest arity is left out
AritiesOneLess(parts) == 1..(Min(MAX_COMBO_PARTS, Len(parts)) - 1)

Arities(parts) == 1..Min(MAX_COMBO_PARTS, Len(parts))

Bases(parts) == UNION {ComboBases(parts, r) : r \in Arities(parts)}

\* lines 117, 120-125 and 137, 140-145: what one case form adds besides its
\* leet variants
Decorated(form, years) ==
  {form}
    \cup {form \o COMMON_SUFFIXES[i] : i \in DOMAIN COMMON_SUFFIXES}
    \cup {COMMON_PREFIXES[i] \o form : i \in DOMAIN COMMON_PREFIXES}
    \cup {form \o str(years[i]) : i \in DOMAIN years}

\* the case forms of the single parts (line 116) and of the bases (line 136)
Forms(parts) ==
  UNION {CaseSet(parts[i]) : i \in DOMAIN parts}
    \cup UNION {CaseSet(base) : base \in Bases(parts)}

\* lines 118-119 and 138-139: the union of leet_variants(form) over the
\* forms; one element per way the calls can cut their sets
RECURSIVE LeetUnions(_)
LeetUnions(forms) ==
  IF forms = {} THEN {{}}
  ELSE LET form == CHOOSE f \in forms : TRUE
       IN  {lv \cup more :
              lv \in LeetOutcomes(form, MAX_LEET_VARIANTS_PER_WORD),
              more \in LeetUnions(forms \ {form})}

\* lines 126-130 without words.add(part * 3)
PartExtrasNoTriple(parts, add_reversed, add_repeats) ==
  (IF add_reversed THEN {reversed(parts[i]) : i \in DOMAIN parts} ELSE {})
    \cup (IF add_repeats THEN {parts[i] \o parts[i] : i \in DOMAIN parts}
                         ELSE {})

\* lines 126-130: reversal and repetition of each single part
PartExtras(parts, add_reversed, add_repeats) ==
  (IF add_reversed THEN {reversed(parts[i]) : i \in DOMAIN parts} ELSE {})
    \cup (IF add_repeats
            THEN {parts[i] \o parts[i] : i \in DOMAIN parts}
                   \cup {parts[i] \o parts[i] \o parts[i] : i \in DOMAIN parts}
            ELSE {})

\* lines 146-149 with words.add(base * 3) added, as for the single parts
BaseExtrasTriple(parts, add_reversed, add_repeats) ==
  (IF add_reversed THEN {reversed(base) : base \in Bases(parts)} ELSE {})
    \cup (IF add_repeats
            THEN {base \o base : base \in Bases(parts)}
                   \cup {base \o base \o base : base \in Bases(parts)}
            ELSE {})

\* lines 146-149: reversal and repetition of each joined base
BaseExtras(parts, add_reversed, add_repeats) ==
  (IF add_reversed THEN {reversed(base) : base \in Bases(parts)} ELSE {})
    \cup (IF add_repeats THEN {base \o base : base \in Bases(parts)} ELSE {})

(***************************************************************************)
(* word_tokenize is the optional collaborator (lines 29-35, 152-161).  It  *)
(* is modelled by the three things it can do to the engine: be absent, be  *)
(* called and raise, or return tokens.  The returned tokens are the        *)
(* whitespace-separated words of the joined string, with each punctuation  *)
(* character split off as a token of its own.                              *)
(***************************************************************************)
TokenizerModes == {"unavailable", "raises", "tokenizes"}

\* line 153: " ".join(parts)
RECURSIVE JoinSpace(_)
JoinSpace(parts) ==
  IF parts = <<>> THEN <<>>
  ELSE IF Len(parts) = 1 THEN parts[1]
  ELSE parts[1] \o <<" ">> \o JoinSpace(Rest(parts))

RECURSIVE TokensFrom(_, _)
TokensFrom(w, cur) ==
  LET flush == IF cur = <<>> THEN <<>> ELSE <<cur>>
  IN  IF w = <<>> THEN flush
      ELSE IF w[1] \in Whitespace THEN flush \o TokensFrom(Rest(w), <<>>)
      ELSE IF w[1] \in Punctuation
        THEN flush \o << <<w[1]>> >> \o TokensFrom(Rest(w), <<>>)
      ELSE TokensFrom(Rest(w), Append(cur, w[1]))

word_tokenize(joined) == TokensFrom(joined, <<>>)

\* str.isalnum(): not empty, every character a letter or a digit
isalnum(t) ==
  /\ t # <<>>
  /\ \A i \in 1..Len(t) :
       t[i] \in Range(LowerLetters) \cup Range(UpperLetters) \cup Range(Digits)

\* lines 152-161 without the test of line 158: every token's case forms
TokenizerWordsUnfiltered(parts, mode) ==
  IF mode = "tokenizes"
    THEN LET tokens == word_tokenize(JoinSpace(parts))
         IN  UNION {CaseSet(tokens[i]) : i \in DOMAIN tokens}
    ELSE {}

\* lines 152-161
TokenizerWords(parts, mode) ==
  IF mode = "tokenizes"
    THEN LET tokens == word_tokenize(JoinSpace(parts))
         IN  UNION {CaseSet(tokens[i]) :
                      i \in {j \in DOMAIN tokens :
                               isalnum(tokens[j]) /\ Len(tokens[j]) > 1}}
    ELSE {}

\* the engine as it would be if each leet variant also got the year suffixes
WordsLeetYears(parts, years, add_reversed, add_repeats, leet, mode) ==
  UNION {Decorated(form, years) : form \in Forms(parts)}
    \cup leet
    \cup {lv \o str(years[i]) : lv \in leet, i \in DOMAIN years}
    \cup PartExtras(parts, add_reversed, add_repeats)
    \cup BaseExtras(parts, add_reversed, add_repeats)
    \cup TokenizerWords(parts, mode)

\* lines 109-161: the set words, for the kept parts, given what the leet
\* calls returned (leet) and what the tokenizer did (mode)
Words(parts, years, add_reversed, add_repeats, leet, mode) ==
  UNION {Decorated(form, years) : form \in Forms(parts)}
    \cup leet
    \cup PartExtras(parts, add_reversed, add_repeats)
    \cup BaseExtras(parts, add_reversed, add_repeats)
    \cup TokenizerWords(parts, mode)

\* words_list[:max_words + 1] in place of words_list[:max_words]
TruncateOneMore(words_list, max_words) ==
  IF Len(words_list) > max_words
    THEN SubSeq(words_list, 1, Min(Len(words_list), Max(0, max_words + 1)))
    ELSE words_list

\* words_list[-max_words:] in place of words_list[:max_words]
TruncateTail(words_list, max_words) ==
  IF Len(words_list) > max_words /\ max_words > 0
    THEN SubSeq(words_list, Len(words_list) - max_words + 1, Len(words_list))
    ELSE words_list

\* lines 164-165: words_list[:max_words] when the list is longer.  A
\* negative max_words counts from the end of the list.
Truncate(words_list, max_words) ==
  IF Len(words_list) > max_words
    THEN IF max_words >= 0 THEN SubSeq(words_list, 1, max_words)
         ELSE SubSeq(words_list, 1, Max(0, Len(words_list) + max_words))
    ELSE words_list

\* lines 111-112 and 163-166: what the call returns for the kept parts,
\* the sorted list and the cap
Returns(kept, words_list, max_words) ==
  IF kept = <<>> THEN <<>> ELSE Truncate(words_list, max_words)

(***************************************************************************)
(* Bounds of the checked instances.                                        *)
(***************************************************************************)
\* the longest token list passed to generate_from_parts
MaxParts == 2

\* the largest small max_words tried, besides the default
MaxWordsArg == 3

\* the most negative max_words tried is -MaxNegWords
MaxNegWords == 2

SeqsUpTo(S, n) == UNION {[1..k -> S] : k \in 0..n}

\* tokens: empty, blank, a name with two substitutable letters, a padded
\* letter
TokenPool ==
  { <<>>, <<" ">>, <<"S","a","m">>, <<" ","t">> }

PartsArgs == SeqsUpTo(TokenPool, MaxParts)

YearsArgs == { <<>>, <<2024, -3>> }

\* token lists that reach and pass the arity cap: one name, three and four
\* one-letter tokens, one letter three times, a token with a space inside
ComboPartsArgs ==
  { << <<"S","a","m">> >>,
    << <<"a">>, <<"b">>, <<"c">> >>,
    << <<"a">>, <<"b">>, <<"c">>, <<"d">> >>,
    << <<"a">>, <<"a">>, <<"a">> >>,
    << <<"a","b"," ","c">>, <<"d">> >> }

MaxWordsArgs == ((0 - MaxNegWords)..MaxWordsArg) \cup {MAX_COMBINED_WORDS}

\* the longest list of raw year tokens passed to expand_years
MaxYearTokens == 3

\* raw year tokens: integers one or more apart, a negative one, two that
\* int() rejects
YearTokenPool ==
  { <<"7">>, <<"8">>, <<"1","2">>, <<"-","3">>, <<"x">>, <<"9","a">> }

YearTokenArgs == SeqsUpTo(YearTokenPool, MaxYearTokens)

\* the longest word passed to leet_variants
MaxWordLen == 3

\* the largest small max_variants tried, besides the default
MaxVariantsArg == 2

\* letters with one substitute, with two substitutes, and without any
LeetAlphabet == {"a", "e", "s", "x"}

LeetWords == SeqsUpTo(LeetAlphabet, MaxWordLen)

MaxVariantsArgs == (1..MaxVariantsArg) \cup {MAX_LEET_VARIANTS_PER_WORD}

\* the longest word passed to permutations_case
MaxCaseLen == 3

\* lower-case letters, an upper-case letter and a digit
CaseAlphabet == {"a", "b", "c", "B", "7"}

CaseWords == SeqsUpTo(CaseAlphabet, MaxCaseLen)

(***************************************************************************)
(* State.  pc is "idle" before a call and names the call once it has       *)
(* returned.  parts, years and tokenizer are what the caller and the       *)
(* installation supply to generate_from_parts; max_words, add_reversed,    *)
(* add_repeats are its other arguments, words and words_list its locals    *)
(* (lines 109 and 163) and result what it returns.  year_tokens and        *)
(* expanded are the argument and the outcome of expand_years.  word and    *)
(* max_variants are the arguments of leet_variants, variants its local set *)
(* (line 71), leet_out the elements of the list it returns and leet_rerun  *)
(* those of the list the same call returns in another run of the program.  *)
(* case_word is the argument of permutations_case and cased the list it    *)
(* returns.  When a call is followed loop by loop, pc names the loop that  *)
(* is at its head, part_iter, r_iter, combo_iter, form_iter and item_iter  *)
(* hold what the iterators of the for statements have yet to yield,        *)
(* loop_base and loop_form are the loop variables part/base and form of    *)
(* lines 115/135 and 116/136, and stage tells whether the part loop or the *)
(* combination loop is running.                                            *)
(***************************************************************************)
VARIABLES pc, parts, years, max_words, add_reversed, add_repeats, tokenizer,
          words, words_list, result,
          year_tokens, expanded,
          word, max_variants, variants, leet_out, leet_rerun,
          case_word, cased,
          stage, part_iter, r_iter, combo_iter, form_iter, item_iter,
          loop_base, loop_form,
          worker, cancelled, dialog, after_queue, gzip_var, file_path,
          gui_words, saved, dialog_destroys, callback_errors, output

genVars == <<parts, years, max_words, add_reversed, add_repeats, tokenizer,
             words, words_list, result>>

yearVars == <<year_tokens, expanded>>

leetVars == <<word, max_variants, variants, leet_out, leet_rerun>>

caseVars == <<case_word, cased>>

stepVars == <<stage, part_iter, r_iter, combo_iter, form_iter, item_iter,
              loop_base, loop_form>>

guiVars == <<worker, cancelled, dialog, after_queue, gzip_var, file_path,
             gui_words, saved, dialog_destroys, callback_errors, output>>

vars == <<pc, genVars, yearVars, leetVars, caseVars, stepVars, guiVars>>

GenIdle ==
  /\ max_words = MAX_COMBINED_WORDS
  /\ add_reversed = FALSE
  /\ add_repeats = FALSE
  /\ words = {}
  /\ words_list = <<>>
  /\ result = <<>>

YearIdle ==
  /\ year_tokens = <<>>
  /\ expanded = Returned(<<>>)

LeetIdle ==
  /\ word = <<>>
  /\ max_variants = MAX_LEET_VARIANTS_PER_WORD
  /\ variants = {}
  /\ leet_out = {}
  /\ leet_rerun = {}

CaseIdle ==
  /\ case_word = <<>>
  /\ cased = <<>>

\* the window before Generate Wordlist is pressed: no worker thread, no
\* progress dialog, nothing scheduled with root.after
GuiIdle ==
  /\ worker = "none"
  /\ cancelled = FALSE
  /\ dialog = "none"
  /\ after_queue = <<>>
  /\ gzip_var = FALSE
  /\ file_path = <<>>
  /\ gui_words = <<>>
  /\ saved = <<>>
  /\ dialog_destroys = 0
  /\ callback_errors = 0
  /\ output = <<>>

StepIdle ==
  /\ stage = "parts"
  /\ part_iter = <<>>
  /\ r_iter = <<>>
  /\ combo_iter = <<>>
  /\ form_iter = <<>>
  /\ item_iter = <<>>
  /\ loop_base = <<>>
  /\ loop_form = <<>>

(***************************************************************************)
(* generate_from_parts: the caller has collected parts and years, the      *)
(* installation has or lacks the tokenizer, and the call is made once.     *)
(***************************************************************************)
Init ==
  /\ pc = "idle"
  /\ parts \in PartsArgs
  /\ years \in YearsArgs
  /\ tokenizer \in TokenizerModes
  /\ GenIdle
  /\ YearIdle
  /\ LeetIdle
  /\ CaseIdle
  /\ StepIdle
  /\ GuiIdle

\* One call of generate_from_parts, lines 107-166.
generate_from_parts ==
  /\ pc = "idle"
  /\ pc' = "generate_from_parts"
  /\ UNCHANGED <<parts, years, tokenizer, yearVars, leetVars, caseVars,
               stepVars>>
  /\ \E rev \in BOOLEAN, rep \in BOOLEAN :
       /\ add_reversed' = rev
       /\ add_repeats' = rep
       /\ IF KeptParts(parts) = <<>>
            THEN words' = {}
            ELSE \E leet \in LeetUnions(Forms(KeptParts(parts))) :
                   words' = Words(KeptParts(parts), years, rev, rep, leet,
                                  tokenizer)
       /\ words_list' = Sorted(words')
       /\ \E m \in MaxWordsArgs :
            /\ max_words' = m
            /\ result' = Returns(KeptParts(parts), words_list', m)
  /\ UNCHANGED guiVars

Next == generate_from_parts

Spec == Init /\ [][Next]_vars

(***************************************************************************)
(* generate_from_parts called once on one of the longer token lists.       *)
(***************************************************************************)
InitCombos ==
  /\ pc = "idle"
  /\ parts \in ComboPartsArgs
  /\ years \in YearsArgs
  /\ tokenizer \in TokenizerModes
  /\ GenIdle
  /\ YearIdle
  /\ LeetIdle
  /\ CaseIdle
  /\ StepIdle
  /\ GuiIdle

NextCombos == generate_from_parts

SpecCombos == InitCombos /\ [][NextCombos]_vars

(***************************************************************************)
(* expand_years: one call on a list of raw tokens.  InitIdle is the state  *)
(* before a call of one of the helper functions.                           *)
(***************************************************************************)
InitIdle ==
  /\ pc = "idle"
  /\ parts = <<>>
  /\ years = <<>>
  /\ tokenizer = "unavailable"
  /\ GenIdle
  /\ YearIdle
  /\ LeetIdle
  /\ CaseIdle
  /\ StepIdle
  /\ GuiIdle

CallExpandYears ==
  /\ pc = "idle"
  /\ pc' = "expand_years"
  /\ \E tokens \in YearTokenArgs :
       /\ year_tokens' = tokens
       /\ expanded' = expand_years(tokens)
  /\ UNCHANGED <<genVars, leetVars, caseVars, stepVars>>
  /\ UNCHANGED guiVars

NextYears == CallExpandYears

SpecYears == InitIdle /\ [][NextYears]_vars

(***************************************************************************)
(* leet_variants: one call, and the same call in a second run of the       *)
(* program.                                                                *)
(***************************************************************************)
CallLeetVariants ==
  /\ pc = "idle"
  /\ pc' = "leet_variants"
  /\ \E w \in LeetWords, mv \in MaxVariantsArgs :
       /\ word' = w
       /\ max_variants' = mv
       /\ variants' = LeetSet(w)
       /\ leet_out' \in LeetOutcomes(w, mv)
  /\ UNCHANGED <<genVars, yearVars, leet_rerun, caseVars, stepVars>>
  /\ UNCHANGED guiVars

RerunLeetVariants ==
  /\ pc = "leet_variants"
  /\ pc' = "leet_variants_rerun"
  /\ leet_rerun' \in LeetOutcomes(word, max_variants)
  /\ UNCHANGED <<genVars, yearVars, caseVars, stepVars, word, max_variants,
               variants, leet_out>>
  /\ UNCHANGED guiVars

NextLeet == CallLeetVariants

SpecLeet == InitIdle /\ [][NextLeet]_vars

NextLeetRerun == CallLeetVariants \/ RerunLeetVariants

SpecLeetRerun == InitIdle /\ [][NextLeetRerun]_vars

(***************************************************************************)
(* permutations_case: one call on a word.                                  *)
(***************************************************************************)
CallPermutationsCase ==
  /\ pc = "idle"
  /\ pc' = "permutations_case"
  /\ \E w \in CaseWords :
       /\ case_word' = w
       /\ cased' = permutations_case(w)
  /\ UNCHANGED <<genVars, yearVars, leetVars, stepVars>>
  /\ UNCHANGED guiVars

NextCase == CallPermutationsCase

SpecCase == InitIdle /\ [][NextCase]_vars

(***************************************************************************)
(* The calls followed loop by loop.  A for statement is one action: with   *)
(* its iterator exhausted it passes control to the statement after the     *)
(* loop, otherwise it binds the next element and runs the loop body up to  *)
(* the next for statement.  An iterator is the sequence of the elements it *)
(* has yet to yield; it is made when the loop is entered and nothing in a  *)
(* loop body touches it.                                                   *)
(***************************************************************************)
\* an iterator that yields its first element again
AdvanceStuck(iter) == iter

\* the iterator after it has yielded its first element
Advance(iter) == Tail(iter)

\* tuples of positions in the order itertools yields them
PickLess(p, q) ==
  \E i \in 1..Len(p) : p[i] < q[i] /\ \A j \in 1..(i - 1) : p[j] = q[j]

InOrder(picks) ==
  [i \in 1..Cardinality(picks) |->
     CHOOSE q \in picks : Cardinality({p \in picks : PickLess(p, q)}) = i - 1]

\* line 134: itertools.permutations(parts, r), as tuples of positions
PermPicks(n, r) ==
  {q \in [1..r -> 1..n] : \A i, j \in 1..r : i # j => q[i] # q[j]}

\* line 74: itertools.combinations(indices, r), as tuples of positions
ComboPicks(indices, r) ==
  {q \in [1..r -> indices] : \A i, j \in 1..r : i < j => q[i] < q[j]}

\* the token lists of the calls followed loop by loop: a blank token, two
\* tokens, four tokens
StepPartsArgs ==
  { << <<" ">> >>,
    << <<"S","a","m">>, <<" ","t">> >>,
    << <<"a">>, <<"b">>, <<"c">>, <<"d">> >> }

InitSteps ==
  /\ pc = "idle"
  /\ parts = <<>>
  /\ years = <<>>
  /\ tokenizer \in TokenizerModes
  /\ GenIdle
  /\ YearIdle
  /\ LeetIdle
  /\ CaseIdle
  /\ StepIdle
  /\ GuiIdle

\* lines 107-114
EnterGenerate ==
  /\ pc = "idle"
  /\ \E ps \in StepPartsArgs, ys \in YearsArgs,
        rev \in BOOLEAN, rep \in BOOLEAN :
       /\ parts' = ps
       /\ years' = ys
       /\ add_reversed' = rev
       /\ add_repeats' = rep
       /\ IF KeptParts(ps) = <<>>
            THEN pc' = "generate_from_parts" /\ part_iter' = <<>>
            ELSE pc' = "for_part" /\ part_iter' = KeptParts(ps)
  /\ UNCHANGED <<max_words, tokenizer, words, words_list, result, yearVars,
                 leetVars, caseVars, stage, r_iter, combo_iter, form_iter,
                 item_iter, loop_base, loop_form>>
  /\ UNCHANGED guiVars

\* line 115, and line 133 when the part loop is over
ForPart ==
  /\ pc = "for_part"
  /\ IF part_iter = <<>>
       THEN /\ pc' = "for_r"
            /\ r_iter' = RangeList(1, Min(MAX_COMBO_PARTS,
                                           Len(KeptParts(parts))))
            /\ UNCHANGED <<part_iter, stage, loop_base, form_iter>>
       ELSE /\ pc' = "for_form"
            /\ stage' = "parts"
            /\ loop_base' = Head(part_iter)
            /\ part_iter' = Advance(part_iter)
            /\ form_iter' = permutations_case(Head(part_iter))
            /\ UNCHANGED r_iter
  /\ UNCHANGED <<genVars, yearVars, leetVars, caseVars, combo_iter, item_iter,
                 loop_form>>
  /\ UNCHANGED guiVars

\* lines 116-118 and 136-138
ForForm ==
  /\ pc = "for_form"
  /\ IF form_iter = <<>>
       THEN /\ pc' = "extras"
            /\ UNCHANGED <<words, form_iter, loop_form, item_iter>>
       ELSE /\ pc' = "for_lv"
            /\ loop_form' = Head(form_iter)
            /\ form_iter' = Advance(form_iter)
            /\ words' = words \cup {Head(form_iter)}
            /\ \E lv \in LeetOutcomes(Head(form_iter),
                                       MAX_LEET_VARIANTS_PER_WORD) :
                 item_iter' = Sorted(lv)
  /\ UNCHANGED <<parts, years, max_words, add_reversed, add_repeats,
                 tokenizer, words_list, result, yearVars, leetVars, caseVars,
                 stage, part_iter, r_iter, combo_iter, loop_base>>
  /\ UNCHANGED guiVars

\* lines 118-119 and 138-139, and lines 120 and 140 when the loop is over
ForLv ==
  /\ pc = "for_lv"
  /\ IF item_iter = <<>>
       THEN pc' = "for_suf" /\ item_iter' = COMMON_SUFFIXES /\ UNCHANGED words
       ELSE /\ words' = words \cup {Head(item_iter)}
            /\ item_iter' = Advance(item_iter)
            /\ UNCHANGED pc
  /\ UNCHANGED <<parts, years, max_words, add_reversed, add_repeats,
                 tokenizer, words_list, result, yearVars, leetVars, caseVars,
                 stage, part_iter, r_iter, combo_iter, form_iter, loop_base,
                 loop_form>>
  /\ UNCHANGED guiVars

\* lines 120-121 and 140-141
ForSuf ==
  /\ pc = "for_suf"
  /\ IF item_iter = <<>>
       THEN pc' = "for_pre" /\ item_iter' = COMMON_PREFIXES /\ UNCHANGED words
       ELSE /\ words' = words \cup {loop_form \o Head(item_iter)}
            /\ item_iter' = Advance(item_iter)
            /\ UNCHANGED pc
  /\ UNCHANGED <<parts, years, max_words, add_reversed, add_repeats,
                 tokenizer, words_list, result, yearVars, leetVars, caseVars,
                 stage, part_iter, r_iter, combo_iter, form_iter, loop_base,
                 loop_form>>
  /\ UNCHANGED guiVars

\* lines 122-123 and 142-143
ForPre ==
  /\ pc = "for_pre"
  /\ IF item_iter = <<>>
       THEN pc' = "for_y" /\ item_iter' = years /\ UNCHANGED words
       ELSE /\ words' = words \cup {Head(item_iter) \o loop_form}
            /\ item_iter' = Advance(item_iter)
            /\ UNCHANGED pc
  /\ UNCHANGED <<parts, years, max_words, add_reversed, add_repeats,
                 tokenizer, words_list, result, yearVars, leetVars, caseVars,
                 stage, part_iter, r_iter, combo_iter, form_iter, loop_base,
                 loop_form>>
  /\ UNCHANGED guiVars

\* lines 124-125 and 144-145
ForYear ==
  /\ pc = "for_y"
  /\ IF item_iter = <<>>
       THEN pc' = "for_form" /\ item_iter' = <<>> /\ UNCHANGED words
       ELSE /\ words' = words \cup {loop_form \o str(Head(item_iter))}
            /\ item_iter' = Advance(item_iter)
            /\ UNCHANGED pc
  /\ UNCHANGED <<parts, years, max_words, add_reversed, add_repeats,
                 tokenizer, words_list, result, yearVars, leetVars, caseVars,
                 stage, part_iter, r_iter, combo_iter, form_iter, loop_base,
                 loop_form>>
  /\ UNCHANGED guiVars

\* lines 126-130 after the forms of a part, lines 146-149 after those of a
\* base
Extras ==
  /\ pc = "extras"
  /\ pc' = IF stage = "parts" THEN "for_part" ELSE "for_combo"
  /\ words' =
       words
         \cup (IF add_reversed THEN {reversed(loop_base)} ELSE {})
         \cup (IF add_repeats THEN {loop_base \o loop_base} ELSE {})
         \cup (IF add_repeats /\ stage = "parts"
                 THEN {loop_base \o loop_base \o loop_base}
                 ELSE {})
  /\ UNCHANGED <<parts, years, max_words, add_reversed, add_repeats,
                 tokenizer, words_list, result, yearVars, leetVars, caseVars,
                 stepVars>>
  /\ UNCHANGED guiVars

\* line 133 and the call of line 134
ForR ==
  /\ pc = "for_r"
  /\ IF r_iter = <<>>
       THEN pc' = "tokenize" /\ UNCHANGED <<r_iter, combo_iter>>
       ELSE /\ pc' = "for_combo"
            /\ combo_iter' = InOrder(PermPicks(Len(KeptParts(parts)),
                                                Head(r_iter)))
            /\ r_iter' = Advance(r_iter)
  /\ UNCHANGED <<genVars, yearVars, leetVars, caseVars, stage, part_iter,
                 form_iter, item_iter, loop_base, loop_form>>
  /\ UNCHANGED guiVars

\* lines 134-136
ForCombo ==
  /\ pc = "for_combo"
  /\ IF combo_iter = <<>>
       THEN /\ pc' = "for_r"
            /\ UNCHANGED <<stage, combo_iter, form_iter, loop_base>>
       ELSE LET pick == Head(combo_iter)
                combo == [i \in 1..Len(pick) |-> KeptParts(parts)[pick[i]]]
            IN  /\ pc' = "for_form"
                /\ stage' = "combos"
                /\ loop_base' = Join(combo)
                /\ combo_iter' = Advance(combo_iter)
                /\ form_iter' = permutations_case(Join(combo))
  /\ UNCHANGED <<genVars, yearVars, leetVars, caseVars, part_iter, r_iter,
                 item_iter, loop_form>>
  /\ UNCHANGED guiVars

\* lines 151-161
Tokenize ==
  /\ pc = "tokenize"
  /\ pc' = "sort"
  /\ words' = words \cup TokenizerWords(KeptParts(parts), tokenizer)
  /\ UNCHANGED <<parts, years, max_words, add_reversed, add_repeats,
                 tokenizer, words_list, result, yearVars, leetVars, caseVars,
                 stepVars>>
  /\ UNCHANGED guiVars

\* lines 163-166.  max_words is not read before line 164; its value is
\* drawn here.
SortAndReturn ==
  /\ pc = "sort"
  /\ pc' = "generate_from_parts"
  /\ words_list' = Sorted(words)
  /\ \E m \in MaxWordsArgs :
       /\ max_words' = m
       /\ result' = Truncate(words_list', m)
  /\ UNCHANGED <<parts, years, add_reversed, add_repeats, tokenizer, words,
                 yearVars, leetVars, caseVars, stepVars>>
  /\ UNCHANGED guiVars

\* lines 64-73
EnterLeet ==
  /\ pc = "idle"
  /\ pc' = "lv_for_r"
  /\ \E w \in LeetWords, mv \in MaxVariantsArgs :
       /\ word' = w
       /\ max_variants' = mv
       /\ variants' = {w}
       /\ r_iter' =
            RangeList(1, Min(3, Cardinality(LeetIndices(w)) + 1) - 1)
  /\ UNCHANGED <<genVars, yearVars, caseVars, leet_out, leet_rerun, stage,
                 part_iter, combo_iter, form_iter, item_iter, loop_base,
                 loop_form>>
  /\ UNCHANGED guiVars

\* line 73 and the call of line 74
LeetForR ==
  /\ pc = "lv_for_r"
  /\ IF r_iter = <<>>
       THEN pc' = "lv_all" /\ UNCHANGED <<r_iter, combo_iter>>
       ELSE /\ pc' = "lv_for_combo"
            /\ combo_iter' = InOrder(ComboPicks(LeetIndices(word),
                                                 Head(r_iter)))
            /\ r_iter' = Advance(r_iter)
  /\ UNCHANGED <<genVars, yearVars, leetVars, caseVars, stage, part_iter,
                 form_iter, item_iter, loop_base, loop_form>>
  /\ UNCHANGED guiVars

\* lines 74-81
LeetForCombo ==
  /\ pc = "lv_for_combo"
  /\ IF combo_iter = <<>>
       THEN pc' = "lv_for_r" /\ UNCHANGED <<variants, combo_iter>>
       ELSE /\ variants' =
                 variants \cup {LeetReplace(word, Range(Head(combo_iter)))}
            /\ combo_iter' = Advance(combo_iter)
            /\ UNCHANGED pc
  /\ UNCHANGED <<genVars, yearVars, caseVars, word, max_variants, leet_out,
                 leet_rerun, stage, part_iter, r_iter, form_iter, item_iter,
                 loop_base, loop_form>>
  /\ UNCHANGED guiVars

\* lines 82-92
LeetAllAndReturn ==
  /\ pc = "lv_all"
  /\ pc' = "leet_variants"
  /\ variants' =
       variants \cup (IF LeetIndices(word) # {}
                        THEN {LeetReplace(word, LeetIndices(word))}
                        ELSE {})
  /\ leet_out' \in LeetOutcomes(word, max_variants)
  /\ UNCHANGED <<genVars, yearVars, caseVars, word, max_variants, leet_rerun,
                 stepVars>>
  /\ UNCHANGED guiVars

NextSteps ==
  \/ EnterGenerate \/ ForPart \/ ForForm \/ ForLv \/ ForSuf \/ ForPre
  \/ ForYear \/ Extras \/ ForR \/ ForCombo \/ Tokenize \/ SortAndReturn
  \/ EnterLeet \/ LeetForR \/ LeetForCombo \/ LeetAllAndReturn
  \/ CallPermutationsCase
  \/ CallExpandYears

SpecSteps == InitSteps /\ [][NextSteps]_vars

(***************************************************************************)
(* Properties of generate_from_parts, checked under Spec.                  *)
(***************************************************************************)
Generated == pc = "generate_from_parts"

\* C1: the sequence generate_from_parts returns is strictly ascending in
\* code point order: every element is greater than its predecessor, so the
\* list is sorted and holds no string twice.
C1_StrictlyAscending ==
  Generated =>
    \A i \in 1..(Len(result) - 1) : StrLess(result[i], result[i + 1])

\* a returned list of several words that was cut by max_words
C1_Witness ==
  /\ Generated
  /\ Len(result) >= 3
  /\ Len(result) < Len(words_list)

\* C2 as stated: len(result) <= max_words for every integer max_words,
\* zero and negative values included.
C2_Original == Generated => Len(result) <= max_words

\* C2 amended: len(result) <= max_words for every max_words >= 0; for a
\* negative max_words the result is the sorted list without its last
\* -max_words elements, of length max(0, n + max_words).
C2_LengthBounded ==
  Generated =>
    /\ max_words >= 0 => Len(result) <= max_words
    /\ max_words < 0 =>
         /\ Len(result) = Max(0, Len(words_list) + max_words)
         /\ result = SubSeq(words_list, 1, Len(result))

\* a call whose candidate set is larger than a non-negative cap
C2_Witness ==
  /\ Generated
  /\ max_words >= 0
  /\ Len(words_list) > max_words
  /\ Len(result) = max_words

\* C3: for the same tokens, years and flags and caps 1 <= m <= M, the call
\* with max_words = m returns the first min(m, len(R)) elements of R, the
\* result with max_words = M; and when the candidate set has at most
\* max_words elements, no element is dropped.
C3_PrefixOfLargerCap ==
  Generated =>
    /\ \A m \in MaxWordsArgs :
         (1 <= m /\ m <= max_words) =>
           Returns(KeptParts(parts), words_list, m)
             = SubSeq(result, 1, Min(m, Len(result)))
    /\ Cardinality(words) <= max_words => Range(result) = words

\* a call cut at M = max_words > 1, so that a smaller cap m exists and the
\* prefix is a proper one
C3_Witness ==
  /\ Generated
  /\ max_words > 1
  /\ Len(words_list) > max_words
  /\ Len(result) = max_words

Sam == <<"S","a","m">>

\* C4 as stated: for every base, every case variant v of it, every leet
\* variant l of v and every year y, l + str(y) is in the untruncated output.
C4_Original ==
  Generated =>
    \A base \in Bases(KeptParts(parts)) :
      \A v \in CaseSet(base) :
        \A l \in LeetSet(v) :
          \A i \in DOMAIN years : l \o str(years[i]) \in words

\* the rules other than a year suffix on a leet variant that can put w
\* into the set
C4_ByAnotherRule(w) ==
  LET kept == KeptParts(parts)
  IN  \/ \E f \in Forms(kept) : w \in Decorated(f, years) \cup LeetSet(f)
      \/ w \in PartExtras(kept, add_reversed, add_repeats)
      \/ w \in BaseExtras(kept, add_reversed, add_repeats)
      \/ w \in TokenizerWords(kept, tokenizer)

\* C4 amended: years are appended to the case variants only.  For every
\* base, case variant v and year y, v + str(y) is in the untruncated output,
\* and so is every leet variant l of v (when v has at most 40 of them), bare;
\* l + str(y) for a substituted l is there only when another rule yields the
\* same string.  For parts = ["Sam"] and the year 2024 the output holds
\* "5am", "S4m", "54m" and "Sam2024" and none of "5am2024", "S4m2024",
\* "54m2024".
C4_LeetVariantsBare ==
  Generated =>
    /\ \A base \in Bases(KeptParts(parts)) :
         \A v \in CaseSet(base) :
           /\ \A i \in DOMAIN years : v \o str(years[i]) \in words
           /\ Cardinality(LeetSet(v)) <= MAX_LEET_VARIANTS_PER_WORD
                => LeetSet(v) \subseteq words
           /\ \A l \in LeetSet(v) \ {v} :
                \A i \in DOMAIN years :
                  l \o str(years[i]) \in words
                    => C4_ByAnotherRule(l \o str(years[i]))
    /\ (KeptParts(parts) = <<Sam>> /\ 2024 \in Range(years)) =>
         \A l \in LeetSet(Sam) \ {Sam} :
           l \in words /\ l \o str(2024) \notin words

\* the call on ["Sam"] with the year 2024: "5am" and "Sam2024" are in the
\* set, "5am2024" is not
C4_Witness ==
  /\ Generated
  /\ KeptParts(parts) = <<Sam>>
  /\ 2024 \in Range(years)
  /\ <<"5","a","m">> \in words
  /\ Sam \o str(2024) \in words
  /\ <<"5","a","m","2","0","2","4">> \notin words

(***************************************************************************)
(* Properties of expand_years, checked under SpecYears.                    *)
(***************************************************************************)
Expanded == pc = "expand_years"

TwoInts ==
  /\ Len(year_tokens) = 2
  /\ IsInt(year_tokens[1])
  /\ IsInt(year_tokens[2])

YearA == int(year_tokens[1])

YearB == int(year_tokens[2])

\* C5: when at least one token is no integer literal, expand_years raises
\* nothing and returns the empty list.
C5_FailSoft ==
  (Expanded /\ \E i \in 1..Len(year_tokens) : ~IsInt(year_tokens[i]))
    => expanded = Returned(<<>>)

\* C6 as stated: two tokens whose values differ by at most 1 are not taken
\* as a range; the result is [a, b] in the order given.
C6_Original ==
  (Expanded /\ TwoInts /\ YearA - YearB \in -1..1)
    => expanded = Returned(<<YearA, YearB>>)

\* C6 amended: two tokens are always taken as the bounds of an inclusive
\* ascending range, also when their values differ by at most 1: the result
\* is [min(a, b), max(a, b)] when they differ by 1, whatever the order
\* given, and the one-element list [a] when they are equal.
C6_AlwaysRange ==
  (Expanded /\ TwoInts /\ YearA - YearB \in -1..1)
    => expanded = Returned(IF YearA = YearB THEN <<YearA>>
                           ELSE <<Min(YearA, YearB), Max(YearA, YearB)>>)

\* expand_years(["8", "7"]) has returned [7, 8]
C6_Witness ==
  /\ Expanded
  /\ year_tokens = << <<"8">>, <<"7">> >>
  /\ expanded = Returned(<<7, 8>>)

\* C7: two tokens whose values differ by more than 1 give every integer
\* from the smaller to the larger, ascending, whichever came first; one
\* token gives the one-element list of its value; no token the empty list.
C7_RangeAscending ==
  Expanded =>
    /\ Len(year_tokens) = 0 => expanded = Returned(<<>>)
    /\ (Len(year_tokens) = 1 /\ IsInt(year_tokens[1]))
         => expanded = Returned(<<int(year_tokens[1])>>)
    /\ (TwoInts /\ YearA - YearB \notin -1..1) =>
         /\ ~expanded.raised
         /\ Len(expanded.value) = Max(YearA, YearB) - Min(YearA, YearB) + 1
         /\ \A k \in 1..Len(expanded.value) :
              expanded.value[k] = Min(YearA, YearB) + k - 1

\* expand_years(["12", "7"]), the larger bound first, has returned 7..12
C7_Witness ==
  /\ Expanded
  /\ year_tokens = << <<"1","2">>, <<"7">> >>
  /\ expanded = Returned(<<7, 8, 9, 10, 11, 12>>)

(***************************************************************************)
(* Properties of leet_variants, checked under SpecLeet and SpecLeetRerun.  *)
(***************************************************************************)
LeetCalled == pc = "leet_variants"

\* C8: for every word and every max_variants >= 1 the original word is an
\* element of the returned list, also when the set was cut.
C8_IncludesOriginal ==
  (LeetCalled /\ max_variants >= 1) => word \in leet_out

\* C9: two evaluations of leet_variants with the same arguments return the
\* same collection of strings, also when the set was cut.
C9_Deterministic ==
  pc = "leet_variants_rerun" => leet_rerun = leet_out

\* word with the first listed substitute at the positions in chosen
C10_Substituted(w, chosen) ==
  [i \in 1..Len(w) |-> IF i \in chosen THEN LEET_MAP[w[i]][1] ELSE w[i]]

\* the set C10 describes: the word, one position replaced, two distinct
\* positions replaced, all positions replaced
C10_Described(w) ==
  LET subst == {i \in 1..Len(w) : w[i] \in LeetKeys}
  IN  {w}
        \cup {C10_Substituted(w, {i}) : i \in subst}
        \cup {C10_Substituted(w, {p[1], p[2]}) :
                p \in {q \in subst \X subst : q[1] # q[2]}}
        \cup {C10_Substituted(w, subst)}

\* C10: when the number of distinct variants does not exceed max_variants,
\* the result is exactly the word, the strings with one or two substitutable
\* positions replaced by the first listed substitute, and the replace-all
\* string; the second listed substitutes are never introduced, and a word
\* without substitutable character yields only itself.
C10_ExactVariants ==
  (LeetCalled /\ Cardinality(C10_Described(word)) <= max_variants) =>
    /\ leet_out = C10_Described(word)
    /\ \A v \in leet_out :
         /\ Len(v) = Len(word)
         /\ \A i \in 1..Len(v) : v[i] \in {"@", "!", "$"} => v[i] = word[i]
    /\ (\A i \in 1..Len(word) : word[i] \notin LeetKeys) => leet_out = {word}

\* leet_variants("sea") with the default bound has returned its 8 variants
C10_Witness ==
  /\ LeetCalled
  /\ word = <<"s","e","a">>
  /\ max_variants = MAX_LEET_VARIANTS_PER_WORD
  /\ Cardinality(leet_out) = 8
  /\ <<"5","3","4">> \in leet_out

(***************************************************************************)
(* Properties of permutations_case, checked under SpecCase.                *)
(***************************************************************************)
CaseCalled == pc = "permutations_case"

\* the case forms a non-empty word w has by the description: w itself, all
\* lower case, all upper case, first character upper and the others lower
C11_Forms(w) ==
  {w,
   [i \in 1..Len(w) |-> LowerChar[w[i]]],
   [i \in 1..Len(w) |-> UpperChar[w[i]]],
   [i \in 1..Len(w) |-> IF i = 1 THEN UpperChar[w[i]] ELSE LowerChar[w[i]]]}

\* C11: for a non-empty word w, permutations_case(w) is a strictly
\* ascending list whose elements are exactly w, lower(w), upper(w),
\* capitalize(w) and, for len(w) > 1, upper(w[0]) + lower(w[1:]); for "abc"
\* they are "ABC", "Abc" and "abc".
C11_CaseVariants ==
  CaseCalled /\ case_word # <<>> =>
    /\ \A i \in 1..(Len(cased) - 1) : StrLess(cased[i], cased[i + 1])
    /\ Range(cased) = C11_Forms(case_word)
    /\ case_word = <<"a","b","c">> =>
         cased = << <<"A","B","C">>, <<"A","b","c">>, <<"a","b","c">> >>

\* a mixed-case word with four different forms
C11_Witness ==
  /\ CaseCalled
  /\ case_word = <<"a","B","c">>
  /\ Len(cased) = 4
(***************************************************************************)
(* Properties of generate_from_parts on the longer token lists, checked    *)
(* under SpecCombos.                                                       *)
(***************************************************************************)
\* the ways to pick r different positions of a list of n tokens, in order
C12_Picks(n, r) ==
  {q \in [1..r -> 1..n] : \A i, j \in 1..r : i # j => q[i] # q[j]}

\* the tokens at the picked positions, concatenated
C12_Concat(kept, pick) ==
  IF Len(pick) = 1 THEN kept[pick[1]]
  ELSE IF Len(pick) = 2 THEN kept[pick[1]] \o kept[pick[2]]
  ELSE kept[pick[1]] \o kept[pick[2]] \o kept[pick[3]]

\* C12: for every arity r from 1 to min(3, number of tokens), every ordered
\* pick of r tokens and every case variant v of their concatenation, the
\* untruncated output holds v, v + s for each of the 14 suffixes, p + v for
\* each of the 4 prefixes and v + str(y) for each year y; for parts =
\* ["Sam"] and year 2024 it holds "Sam2024", "sam2024" and "SAM2024".
C12_AllDecorations ==
  Generated =>
    LET kept == KeptParts(parts)
        out == Range(words_list)
    IN  /\ Len(COMMON_SUFFIXES) = 14
        /\ Len(COMMON_PREFIXES) = 4
        /\ \A r \in 1..Min(3, Len(kept)) :
             \A pick \in C12_Picks(Len(kept), r) :
               \A v \in CaseSet(C12_Concat(kept, pick)) :
                 /\ v \in out
                 /\ \A i \in 1..14 : v \o COMMON_SUFFIXES[i] \in out
                 /\ \A i \in 1..4 : COMMON_PREFIXES[i] \o v \in out
                 /\ \A i \in 1..Len(years) : v \o str(years[i]) \in out
        /\ kept = << <<"S","a","m">> >> /\ years = <<2024, -3>> =>
             {<<"S","a","m","2","0","2","4">>, <<"s","a","m","2","0","2","4">>,
              <<"S","A","M","2","0","2","4">>} \subseteq out

\* four tokens: a three-token base is decorated with a suffix, a prefix and
\* a year
C12_Witness ==
  /\ Generated
  /\ Len(parts) = 4
  /\ years = <<2024, -3>>
  /\ {<<"C","a","b","1","2","3","4","5">>, <<"#","c","a","b">>,
      <<"C","A","B","-","3">>} \subseteq words
\* the word sets the permutation and decoration steps of the current call
\* build on their own (lines 114-149)
C15_StepsAlone ==
  LET kept == KeptParts(parts)
  IN  {UNION {Decorated(form, years) : form \in Forms(kept)}
         \cup leet
         \cup PartExtras(kept, add_reversed, add_repeats)
         \cup BaseExtras(kept, add_reversed, add_repeats) :
         leet \in LeetUnions(Forms(kept))}

\* the tokens the tokenizer returned that are alphanumeric and longer than
\* one character
C15_UsableTokens ==
  LET tokens == word_tokenize(JoinSpace(KeptParts(parts)))
  IN  {tokens[i] : i \in
         {j \in 1..Len(tokens) :
            /\ Len(tokens[j]) > 1
            /\ \A k \in 1..Len(tokens[j]) :
                 tokens[j][k] \in Range(LowerLetters) \cup Range(UpperLetters)
                                   \cup Range(Digits)}}

\* C15: when the tokenizer is unavailable or raises, generate_from_parts
\* returns exactly the result of the permutation and decoration steps;
\* when it succeeds, what it adds are only case variants of the tokens it
\* returned that are alphanumeric and longer than one character.
C15_TokenizerDegrades ==
  Generated /\ KeptParts(parts) # <<>> =>
    /\ tokenizer \in {"unavailable", "raises"} => words \in C15_StepsAlone
    /\ tokenizer = "tokenizes" =>
         \E steps \in C15_StepsAlone :
           /\ steps \subseteq words
           /\ \A w \in words \ steps :
                \E t \in C15_UsableTokens : w \in CaseSet(t)

\* the token "ab c" makes the tokenizer add "ab", "AB" and "Ab"; "c" and
\* "C" are not added
C15_Witness ==
  /\ Generated
  /\ tokenizer = "tokenizes"
  /\ parts = << <<"a","b"," ","c">>, <<"d">> >>
  /\ {<<"a","b">>, <<"A","B">>, <<"A","b">>} \subseteq words
  /\ <<"c">> \notin words
  /\ \A steps \in C15_StepsAlone : <<"a","b">> \notin steps

\* the rules other than the tripling of a multi-token base that can put w
\* into the set: decoration and leet variants of a case form, reversal,
\* repetition of a single token, doubling of a base, the tokenizer
C20_ByAnotherRule(w) ==
  LET kept == KeptParts(parts)
  IN  \/ \E f \in Forms(kept) : w \in Decorated(f, years) \cup LeetSet(f)
      \/ w \in PartExtras(kept, add_reversed, add_repeats)
      \/ add_reversed /\ \E b \in Bases(kept) : w = reversed(b)
      \/ \E b \in Bases(kept) : w = b \o b
      \/ w \in TokenizerWords(kept, tokenizer)

\* C20: with add_repeats, every single token t contributes t + t and
\* t + t + t, and every base b joined from 2 or 3 tokens contributes b + b;
\* b + b + b is in the output only when another rule yields the same
\* string, and for parts = ["a", "b", "c"] "ababab" is not in it.
C20_RepeatAsymmetric ==
  Generated /\ add_repeats =>
    LET kept == KeptParts(parts)
    IN  /\ \A i \in 1..Len(kept) :
             /\ kept[i] \o kept[i] \in words
             /\ kept[i] \o kept[i] \o kept[i] \in words
        /\ \A r \in 2..Min(3, Len(kept)) :
             \A pick \in C12_Picks(Len(kept), r) :
               LET b == C12_Concat(kept, pick)
               IN  /\ b \o b \in words
                   /\ b \o b \o b \in words => C20_ByAnotherRule(b \o b \o b)
        /\ kept = << <<"a">>, <<"b">>, <<"c">> >> =>
             <<"a","b","a","b","a","b">> \notin words

\* three tokens with add_repeats: "aa", "aaa", "abab" and "abcabc" are
\* candidates, "abcabcabc" is not
C20_Witness ==
  /\ Generated
  /\ add_repeats
  /\ parts = << <<"a">>, <<"b">>, <<"c">> >>
  /\ {<<"a","a">>, <<"a","a","a">>, <<"a","b","a","b">>,
      <<"a","b","c","a","b","c">>} \subseteq words
  /\ <<"a","b","c","a","b","c","a","b","c">> \notin words

(***************************************************************************)
(* Further properties of generate_from_parts, checked under Spec.          *)
(***************************************************************************)
\* a token that is empty or holds only whitespace
C13_Blank(p) == \A i \in 1..Len(p) : p[i] \in Whitespace

C13_WithoutBlanks(ps) == SelectSeq(ps, LAMBDA p : ~C13_Blank(p))

\* the word sets the engine can build from the token list ps with the
\* years, flags and tokenizer of the current call
OutputsFor(ps) ==
  IF KeptParts(ps) = <<>> THEN {{}}
  ELSE {Words(KeptParts(ps), years, add_reversed, add_repeats, leet,
              tokenizer) :
          leet \in LeetUnions(Forms(KeptParts(ps)))}

\* C13: for an empty token list, or one whose tokens are all empty or
\* whitespace-only, generate_from_parts returns the empty sequence whatever
\* years, max_words and flags are; blank tokens mixed with non-blank ones
\* add nothing: the output is that of the list without them.
C13_BlanksIgnored ==
  Generated =>
    /\ (\A i \in 1..Len(parts) : C13_Blank(parts[i])) =>
         words = {} /\ result = <<>>
    /\ C13_WithoutBlanks(parts) \notin {<<>>, parts} =>
         words \in OutputsFor(C13_WithoutBlanks(parts))

\* an empty and a whitespace-only token with years and both flags set
C13_Witness ==
  /\ Generated
  /\ parts = << <<>>, <<" ">> >>
  /\ years # <<>>
  /\ add_reversed
  /\ add_repeats
  /\ result = <<>>
\* the word sets the engine can build from the token list ps with both
\* flags off and the years and tokenizer of the current call
PlainOutputsFor(ps) ==
  {Words(KeptParts(ps), years, FALSE, FALSE, leet, tokenizer) :
     leet \in LeetUnions(Forms(KeptParts(ps)))}

\* C14: for a single token t and a cap that is not reached, the output
\* with add_reversed is the output without it plus the one string
\* reverse(t), undecorated, and the output with add_repeats is the output
\* without it plus exactly t + t and t + t + t.
C14_FlagsAddExactly ==
  Generated /\ Len(KeptParts(parts)) = 1 /\ max_words >= Len(words_list) =>
    LET t == KeptParts(parts)[1]
        rev == IF add_reversed
                 THEN {[i \in 1..Len(t) |-> t[Len(t) + 1 - i]]}
                 ELSE {}
        rpt == IF add_repeats THEN {t \o t, t \o t \o t} ELSE {}
    IN  Range(result) \in
          {plain \cup rev \cup rpt : plain \in PlainOutputsFor(parts)}

\* "Sam" with both flags: "maS", "SamSam" and "SamSamSam" are returned
C14_Witness ==
  /\ Generated
  /\ parts = << <<"S","a","m">> >>
  /\ add_reversed
  /\ add_repeats
  /\ max_words >= Len(words_list)
  /\ {<<"m","a","S">>, <<"S","a","m","S","a","m">>,
      <<"S","a","m","S","a","m","S","a","m">>} \subseteq Range(result)
\* the characters of the decimal form of the year y
C16_YearChars(y) ==
  LET a == IF y < 0 THEN 0 - y ELSE y
  IN  (IF y < 0 THEN {"-"} ELSE {})
        \cup {Digits[((a \div p) % 10) + 1] :
                p \in {q \in {1, 10, 100, 1000, 10000} : q = 1 \/ q <= a}}

\* the characters a returned string may hold
C16_Allowed ==
  LET given == UNION {Range(parts[i]) : i \in 1..Len(parts)}
  IN  given
        \cup {UpperChar[c] : c \in given}
        \cup {LowerChar[c] : c \in given}
        \cup {LEET_MAP[c][1] : c \in LeetKeys}
        \cup UNION {Range(COMMON_SUFFIXES[i]) : i \in 1..Len(COMMON_SUFFIXES)}
        \cup UNION {Range(COMMON_PREFIXES[i]) : i \in 1..Len(COMMON_PREFIXES)}
        \cup UNION {C16_YearChars(years[i]) : i \in 1..Len(years)}

\* C16: every character of every string generate_from_parts returns (the
\* strings of the sorted list, cut or not) is a character of an input
\* token or its upper- or lower-case form, a first-listed replacement
\* character, a character of the prefix and suffix lists, or a character
\* of the decimal form of a supplied year.
C16_NoExtraneousChars ==
  Generated =>
    UNION {Range(words_list[i]) : i \in 1..Len(words_list)}
      \subseteq C16_Allowed

\* two tokens without a space, with a negative year: the joined base with
\* the year is returned
C16_Witness ==
  /\ Generated
  /\ parts = << <<"S","a","m">>, <<"S","a","m">> >>
  /\ years = <<2024, -3>>
  /\ " " \notin C16_Allowed
  /\ <<"S","a","m","S","a","m","-","3">> \in Range(result)
\* the token list with every token trimmed
C18_Stripped(ps) == [i \in 1..Len(ps) |-> strip(ps[i])]

\* C18: generate_from_parts trims each token, so its output for a token
\* list equals its output for the list of the trimmed tokens, and no
\* candidate starts or ends with the padding of a token.
C18_TrimmedTokens ==
  Generated =>
    /\ words \in OutputsFor(C18_Stripped(parts))
    /\ \A i \in 1..Len(parts) :
         ~C13_Blank(parts[i]) /\ strip(parts[i]) # parts[i] =>
           parts[i] \notin words

\* the token list without the later occurrences of a token
RECURSIVE C19_Distinct(_)
C19_Distinct(ps) ==
  IF ps = <<>> THEN <<>>
  ELSE LET front == C19_Distinct(SubSeq(ps, 1, Len(ps) - 1))
           last == ps[Len(ps)]
       IN  IF last \in Range(front) THEN front ELSE Append(front, last)

\* C19: permutations are drawn from the distinct tokens, so with
\* add_repeats false the output for a token list equals the output for the
\* list without its duplicate tokens; no base holds a token twice.
C19_DistinctTokens ==
  Generated /\ ~add_repeats =>
    words \in OutputsFor(C19_Distinct(parts))
(***************************************************************************)
(* Properties of the calls followed loop by loop, checked under SpecSteps. *)
(***************************************************************************)
HasReturned ==
  pc \in {"generate_from_parts", "leet_variants", "permutations_case",
          "expand_years"}

\* the loops add up to what the functions are taken to return as a whole
StepsAgree ==
  /\ pc = "generate_from_parts" => words \in OutputsFor(parts)
  /\ pc = "leet_variants" => variants = LeetSet(word)

\* the statements of a call that is under way, each with the action that
\* executes it
Labels ==
  {"for_part", "for_form", "for_lv", "for_suf", "for_pre", "for_y", "extras",
   "for_r", "for_combo", "tokenize", "sort",
   "lv_for_r", "lv_for_combo", "lv_all"}

InBody == pc \in {"for_form", "for_lv", "for_suf", "for_pre", "for_y", "extras"}

\* how far the call is from its return: the part of the function that is
\* running, then what the iterators have yet to yield from the outermost
\* loop to the innermost, with the place inside a loop body in between
WorkLeft ==
  << CASE pc = "idle" -> 5
       [] pc = "for_part" \/ (InBody /\ stage = "parts") -> 4
       [] pc \in {"for_r", "for_combo", "lv_for_r", "lv_for_combo"} -> 3
       [] InBody /\ stage = "combos" -> 3
       [] pc = "tokenize" -> 2
       [] pc \in {"sort", "lv_all"} -> 1
       [] OTHER -> 0,
     Len(part_iter),
     Len(r_iter),
     Len(combo_iter),
     CASE pc \in {"for_part", "for_r", "lv_for_r"} -> 0
       [] pc \in {"for_combo", "lv_for_combo"} -> 1
       [] OTHER -> 2,
     Len(form_iter),
     CASE pc = "for_lv" -> 5
       [] pc = "for_suf" -> 4
       [] pc = "for_pre" -> 3
       [] pc = "for_y" -> 2
       [] pc = "for_form" -> 1
       [] OTHER -> 0,
     Len(item_iter) >>

\* p comes before q in the lexicographic order of tuples of naturals
LexLess(p, q) ==
  \E i \in 1..Len(p) : p[i] < q[i] /\ \A j \in 1..(i - 1) : p[j] = q[j]

\* C17: generate_from_parts, leet_variants, permutations_case and
\* expand_years terminate.  Every step of a call takes an element from an
\* iterator made before the loop was entered, or leaves a loop whose
\* iterator is exhausted: the work left, a tuple of naturals, gets smaller
\* in the lexicographic order with every step, so no call takes steps for
\* ever, and a step leads to the return or to a statement that has a step
\* again.
C17_Terminates ==
  [][/\ LexLess(WorkLeft', WorkLeft)
     /\ HasReturned' \/ pc' \in Labels]_vars

\* a call on four tokens has returned after the loops over the arities 1
\* to 3: a base of three tokens is among the candidates
C17_Witness ==
  /\ pc = "generate_from_parts"
  /\ Len(parts) = 4
  /\ r_iter = <<>>
  /\ combo_iter = <<>>
  /\ <<"d","c","b">> \in Range(result)
(***************************************************************************)
(* The GUI's Generate Wordlist: the main thread (button clicks and the    *)
(* callbacks scheduled with root.after) interleaved with the worker       *)
(* thread of generate_wordlist, password_analyzer_gui.py lines 505-576.   *)
(* Each worker action is one stretch of the worker between two reads of   *)
(* state the main thread writes.                                          *)
(***************************************************************************)

\* what collect_user_inputs returned: one token
GuiInputs == { << <<"a">> >>, << <<"7">> >> }

\* the Max words field as parsed on lines 527-530
GuiMaxWordsArgs == {0, MaxWordsArg}

\* what the save dialog returns: dismissed, or a path with or without ".gz"
FilePathArgs ==
  { <<>>, <<"w">>, <<"w", ".", "g", "z">> }

\* file_path.endswith(".gz")
EndsWithGz(path) ==
  /\ Len(path) >= 3
  /\ SubSeq(path, Len(path) - 2, Len(path)) = <<".", "g", "z">>

\* the path save_wordlist writes to and returns
save_wordlist(outpath, gzip_out) ==
  IF gzip_out /\ ~EndsWithGz(outpath) THEN outpath \o <<".", "g", "z">>
  ELSE outpath

InitGui ==
  /\ pc = "idle"
  /\ parts = <<>>
  /\ years = <<>>
  /\ tokenizer \in TokenizerModes
  /\ GenIdle
  /\ YearIdle
  /\ LeetIdle
  /\ CaseIdle
  /\ StepIdle
  /\ GuiIdle

\* the Compress output checkbutton; the progress dialog holds the grab
\* while it is shown
ToggleGzip ==
  /\ dialog # "shown"
  /\ gzip_var' = ~gzip_var
  /\ UNCHANGED <<pc, genVars, yearVars, leetVars, caseVars, stepVars>>
  /\ UNCHANGED <<worker, cancelled, dialog, after_queue, file_path, gui_words,
                 saved, dialog_destroys, callback_errors, output>>

\* generate_wordlist on the main thread: the inputs are not empty, the
\* progress dialog is built with cancelled = False and the worker started
ClickGenerate ==
  /\ worker = "none"
  /\ dialog = "none"
  /\ parts' \in GuiInputs
  /\ max_words' \in GuiMaxWordsArgs
  /\ cancelled' = FALSE
  /\ dialog' = "shown"
  /\ worker' = "generate"
  /\ UNCHANGED <<pc, years, add_reversed, add_repeats, tokenizer, words,
                 words_list, result, yearVars, leetVars, caseVars, stepVars>>
  /\ UNCHANGED <<after_queue, gzip_var, file_path, gui_words, saved,
                 dialog_destroys, callback_errors, output>>

\* ProgressDialog.cancel, the Cancel button of the dialog
ClickCancel ==
  /\ dialog = "shown"
  /\ cancelled' = TRUE
  /\ dialog' = "destroyed"
  /\ dialog_destroys' = dialog_destroys + 1
  /\ UNCHANGED <<pc, genVars, yearVars, leetVars, caseVars, stepVars>>
  /\ UNCHANGED <<worker, after_queue, gzip_var, file_path, gui_words, saved,
                 callback_errors, output>>

\* the main loop runs the oldest root.after callback. progress.destroy
\* calls progress.stop() first, which raises TclError on a progress bar
\* that Cancel has destroyed, so its dialog.destroy() is not reached then
RunAfter ==
  /\ after_queue # <<>>
  /\ after_queue' = Tail(after_queue)
  /\ IF Head(after_queue) = "destroy"
       THEN IF dialog = "shown"
              THEN /\ dialog' = "destroyed"
                   /\ dialog_destroys' = dialog_destroys + 1
                   /\ UNCHANGED <<callback_errors, output>>
              ELSE /\ callback_errors' = callback_errors + 1
                   /\ UNCHANGED <<dialog, dialog_destroys, output>>
       ELSE /\ output' = Append(output, Head(after_queue))
            /\ UNCHANGED <<dialog, dialog_destroys, callback_errors>>
  /\ UNCHANGED <<pc, genVars, yearVars, leetVars, caseVars, stepVars>>
  /\ UNCHANGED <<worker, cancelled, gzip_var, file_path, gui_words, saved>>

\* worker: words = generate_from_parts(inputs, ...)
WorkerGenerate ==
  /\ worker = "generate"
  /\ \E rev \in BOOLEAN, rep \in BOOLEAN :
       /\ add_reversed' = rev
       /\ add_repeats' = rep
       /\ \E leet \in LeetUnions(Forms(KeptParts(parts))) :
            gui_words' =
              Returns(KeptParts(parts),
                      Sorted(Words(KeptParts(parts), years, rev, rep, leet,
                                   tokenizer)),
                      max_words)
  /\ worker' = "check_cancelled"
  /\ UNCHANGED <<pc, parts, years, max_words, tokenizer, words, words_list,
                 result, yearVars, leetVars, caseVars, stepVars>>
  /\ UNCHANGED <<cancelled, dialog, after_queue, gzip_var, file_path, saved,
                 dialog_destroys, callback_errors, output>>

\* worker: if progress.cancelled: return
WorkerCheckCancelled ==
  /\ worker = "check_cancelled"
  /\ worker' = IF cancelled THEN "finally" ELSE "ask"
  /\ UNCHANGED <<pc, genVars, yearVars, leetVars, caseVars, stepVars>>
  /\ UNCHANGED <<cancelled, dialog, after_queue, gzip_var, file_path,
                 gui_words, saved, dialog_destroys, callback_errors, output>>

\* worker: file_path = filedialog.asksaveasfilename(...)
WorkerAskSave ==
  /\ worker = "ask"
  /\ file_path' \in FilePathArgs
  /\ worker' = "check_path"
  /\ UNCHANGED <<pc, genVars, yearVars, leetVars, caseVars, stepVars>>
  /\ UNCHANGED <<cancelled, dialog, after_queue, gzip_var, gui_words, saved,
                 dialog_destroys, callback_errors, output>>

\* worker: if file_path and not progress.cancelled
WorkerCheckPath ==
  /\ worker = "check_path"
  /\ worker' = IF file_path # <<>> /\ ~cancelled THEN "extension"
               ELSE "finally"
  /\ UNCHANGED <<pc, genVars, yearVars, leetVars, caseVars, stepVars>>
  /\ UNCHANGED <<cancelled, dialog, after_queue, gzip_var, file_path,
                 gui_words, saved, dialog_destroys, callback_errors, output>>

\* worker: the extension is made to agree with the checkbutton
WorkerFixExtension ==
  /\ worker = "extension"
  /\ file_path' = IF gzip_var /\ ~EndsWithGz(file_path)
                    THEN file_path \o <<".", "g", "z">>
                    ELSE file_path
  /\ worker' = "save"
  /\ UNCHANGED <<pc, genVars, yearVars, leetVars, caseVars, stepVars>>
  /\ UNCHANGED <<cancelled, dialog, after_queue, gzip_var, gui_words, saved,
                 dialog_destroys, callback_errors, output>>

\* worker: save_wordlist(words, outpath=file_path, gzip_out=...), which
\* writes the file or raises; each call is logged with the value
\* progress.cancelled has when the call is made
WorkerSave ==
  /\ worker = "save"
  /\ saved' = Append(saved, [outpath |-> save_wordlist(file_path, gzip_var),
                             words |-> gui_words,
                             cancelled |-> cancelled])
  /\ \E raised \in BOOLEAN :
       worker' = IF raised THEN "except" ELSE "report"
  /\ UNCHANGED <<pc, genVars, yearVars, leetVars, caseVars, stepVars>>
  /\ UNCHANGED <<cancelled, dialog, after_queue, gzip_var, file_path,
                 gui_words, dialog_destroys, callback_errors, output>>

\* worker: the three print_output calls handed to the main loop
WorkerReport ==
  /\ worker = "report"
  /\ after_queue' = after_queue \o <<"generated", "saved_to", "rule">>
  /\ worker' = "finally"
  /\ UNCHANGED <<pc, genVars, yearVars, leetVars, caseVars, stepVars>>
  /\ UNCHANGED <<cancelled, dialog, gzip_var, file_path, gui_words, saved,
                 dialog_destroys, callback_errors, output>>

\* worker: except Exception, the error box handed to the main loop
WorkerExcept ==
  /\ worker = "except"
  /\ after_queue' = Append(after_queue, "showerror")
  /\ worker' = "finally"
  /\ UNCHANGED <<pc, genVars, yearVars, leetVars, caseVars, stepVars>>
  /\ UNCHANGED <<cancelled, dialog, gzip_var, file_path, gui_words, saved,
                 dialog_destroys, callback_errors, output>>

\* worker: finally, progress.destroy handed to the main loop
WorkerFinally ==
  /\ worker = "finally"
  /\ after_queue' = Append(after_queue, "destroy")
  /\ worker' = "done"
  /\ UNCHANGED <<pc, genVars, yearVars, leetVars, caseVars, stepVars>>
  /\ UNCHANGED <<cancelled, dialog, gzip_var, file_path, gui_words, saved,
                 dialog_destroys, callback_errors, output>>

NextGui ==
  \/ ToggleGzip
  \/ ClickGenerate
  \/ ClickCancel
  \/ RunAfter
  \/ WorkerGenerate
  \/ WorkerCheckCancelled
  \/ WorkerAskSave
  \/ WorkerCheckPath
  \/ WorkerFixExtension
  \/ WorkerSave
  \/ WorkerReport
  \/ WorkerExcept
  \/ WorkerFinally

SpecGui == InitGui /\ [][NextGui]_vars

(***************************************************************************)
(* Properties of SpecGui.                                                  *)
(***************************************************************************)

\* no call of save_wordlist was made with progress.cancelled already true
C21_NoSaveAfterCancel == \A i \in DOMAIN saved : ~saved[i].cancelled

\* dialog.destroy() runs at most once, and once when the generation is over
C21_TornDownOnce ==
  /\ dialog_destroys <= 1
  /\ worker = "done" /\ after_queue = <<>> => dialog_destroys = 1

\* C21: a cancelled generation is discarded: under every interleaving of
\* the worker thread with the Cancel button, save_wordlist is never called
\* once ProgressDialog.cancelled is true, and the progress dialog is
\* destroyed exactly once per generation.
C21_CancelDiscards == C21_NoSaveAfterCancel /\ C21_TornDownOnce

====
